---- MODULE Spec2Model ----
(***************************************************************************)
(* The capture/record session controller of react-media-recorder, in its   *)
(* two variants: the render-prop component ReactMediaRecorder              *)
(* (src/src/index.ts) and the hook useReactMediaRecorder                   *)
(* (src/unnamed/part_001).  The controller's refs and state fields are the *)
(* variables; the host platform (getUserMedia, getDisplayMedia,            *)
(* MediaRecorder, URL.createObjectURL) is the environment: its promises    *)
(* settle and its events fire in any order the event loop allows.          *)
(***************************************************************************)
EXTENDS Integers, Sequences, FiniteSets, TLC

\* ---- bounds of the exploration ----
MaxStarts == 2        \* calls of startRecording
MaxChunks == 2        \* dataavailable events the platform delivers

\* ---- values ----
NULL == 0

\* error names the platform reports when it rejects an acquisition
PlatformErrorNames == {"NotAllowedError", "SecurityError"}

\* enum RecorderErrors: key -> string code; a key outside the enum reads undefined
RecorderErrors(key) ==
    CASE key = "AbortError" -> "media_aborted"
      [] key = "NotAllowedError" -> "permission_denied"
      [] key = "NotFoundError" -> "no_specified_media_found"
      [] key = "NotReadableError" -> "media_in_use"
      [] key = "OverconstrainedError" -> "invalid_media_constraints"
      [] key = "TypeError" -> "no_constraints"
      [] key = "NONE" -> ""
      [] key = "NO_RECORDER" -> "recorder_error"
      [] OTHER -> "undefined"

NullBlob == [type |-> "null", parts |-> <<>>]

VARIABLES
    variant,          \* "render" (ReactMediaRecorder) or "hook" (useReactMediaRecorder)
    audio,            \* prop: "false", "true" or "constraints"
    video,            \* prop: "false", "true" or "constraints"
    screen,           \* prop
    blobPropertyBag,  \* prop: "absent", "audio" (audio-typed bag), "video" (video-typed bag)
    isWebkit,         \* the host has no MediaRecorder (!window.MediaRecorder)
    fallBackAudio,    \* fallBackAudio.current of the hook is set
    webkitAudio,      \* the alternate encoder: [recording, startDue, stopDue]
    setupError,       \* "none", or the message of the Error the mount effect threw
    mounted,          \* the mount effect has run
    status,
    error,            \* key of RecorderErrors, or the platform's error name
    isAudioMuted,
    mediaBlobUrl,     \* NULL or the id of an object URL
    mediaBlob,        \* NullBlob or [type, parts]
    mediaStream,      \* mediaStream.current: NullStream or [id, audio: the enabled flags
                      \* of its audio tracks, video: the number of its video tracks]
    previewStream,    \* previewStream.current of the render-prop variant
    mediaRecorder,    \* mediaRecorder.current: NULL or a recorder id
    mediaChunks,      \* mediaChunks.current
    nStreams,         \* platform: streams handed out so far
    recorders,        \* platform: recorder id -> [stream, state, stopQueued, sent]
    acqs,             \* platform: the getMediaStream calls in flight
    nAcq,             \* getMediaStream calls made so far
    resume,           \* a startRecording awaiting getMediaStream is due to continue
    nStarts,          \* startRecording calls made so far
    nChunks,          \* dataavailable events delivered so far
    nUrls,            \* object URLs created so far
    onStopCalls,      \* the arguments onStop was invoked with, in order
    statusLog,        \* the status values a subscriber observed in the first record cycle
    sinceStart,       \* the chunks delivered since the most recent recorder start
    platformCall      \* the recorder request the last step forwarded to the platform

vars ==
    <<variant, audio, video, screen, blobPropertyBag, isWebkit, fallBackAudio,
      webkitAudio, setupError, mounted, status, error,
      isAudioMuted, mediaBlobUrl, mediaBlob, mediaStream, previewStream,
      mediaRecorder, mediaChunks, nStreams, recorders, acqs, nAcq, resume,
      nStarts, nChunks, nUrls, onStopCalls, statusLog, sinceStart, platformCall>>

props == <<variant, audio, video, screen, blobPropertyBag, isWebkit>>

\* the state of the fallback path
fallback == <<fallBackAudio, webkitAudio, setupError>>

\* the alternate encoder at rest
IdleEncoder == [recording |-> FALSE, startDue |-> FALSE, stopDue |-> FALSE]

\* a boolean | MediaTrackConstraints prop: false, true or a constraints object
PropValues == {"false", "true", "constraints"}

Truthy(v) == v # "false"

NullStream == [id |-> NULL, audio |-> <<>>, video |-> 0]

NullPreview == [of |-> NULL, audio |-> <<>>, video |-> 0]

\* the blobPropertyBag prop: absent, or a bag with an audio or a video content type
BagValues == {"absent", "audio", "video"}

\* the prop combinations explored: the boolean props in every combination, and with
\* audio on a microphone/camera capture also a blob property bag or constraints objects
Configs ==
    {c \in [audio : PropValues, video : PropValues, screen : BOOLEAN,
            blobPropertyBag : BagValues] :
        \/ c.blobPropertyBag = "absent" /\ "constraints" \notin {c.audio, c.video}
        \/ /\ c.blobPropertyBag # "absent" /\ ~c.screen
           /\ c.audio = "true" /\ c.video # "constraints"
        \/ /\ c.blobPropertyBag = "absent" /\ ~c.screen
           /\ c.audio = "constraints" /\ c.video = "constraints"}

\* the prop combinations explored on a host without MediaRecorder: audio alone
WebkitConfigs ==
    {c \in Configs : /\ c.audio = "true" /\ c.video = "false" /\ ~c.screen
                     /\ c.blobPropertyBag = "absent"}

Init ==
    /\ variant \in {"render", "hook"}
    /\ \E c \in Configs :
          /\ audio = c.audio
          /\ video = c.video
          /\ screen = c.screen
          /\ blobPropertyBag = c.blobPropertyBag
          /\ isWebkit \in {w \in BOOLEAN : w => c \in WebkitConfigs}
    /\ fallBackAudio = FALSE
    /\ webkitAudio = IdleEncoder
    /\ setupError = "none"
    /\ mounted = FALSE
    /\ status = "idle"
    /\ error = "NONE"
    /\ isAudioMuted = FALSE
    /\ mediaBlobUrl = NULL
    /\ mediaBlob = NullBlob
    /\ mediaStream = NullStream
    /\ previewStream = NullPreview
    /\ mediaRecorder = NULL
    /\ mediaChunks = <<>>
    /\ nStreams = 0
    /\ recorders = <<>>
    /\ acqs = {}
    /\ nAcq = 0
    /\ resume = FALSE
    /\ nStarts = 0
    /\ nChunks = 0
    /\ nUrls = 0
    /\ onStopCalls = <<>>
    /\ statusLog = <<"idle">>
    /\ sinceStart = <<>>
    /\ platformCall = "none"

\* ---- the controller's helpers ----

\* the subscriber of the status log watches the first record cycle: it leaves at
\* the first stop event, or once startRecording has been called a second time
Watching == nStarts <= 1 /\ nUrls = 0

\* setStatus(s): a subscriber observes the new value when it differs
SetStatus(s) ==
    /\ status' = s
    /\ statusLog' = IF s # status /\ Watching THEN Append(statusLog, s) ELSE statusLog

\* getMediaStream up to its first await: the request is handed to the platform
GetMediaStream(origin) ==
    /\ SetStatus("acquiring_media")
    /\ nAcq' = nAcq + 1
    /\ acqs' = acqs \cup {[id |-> nAcq + 1, origin |-> origin,
                           phase |-> IF screen THEN "display" ELSE "user"]}

\* startRecording resets the chunk buffer before it creates the recorder
ResetsChunks == variant = "render"

\* startRecording resets the reference URL before it creates the recorder
ResetsBlobUrl == variant = "render"

\* the body of startRecording's `if (mediaStream.current)`
BeginRecording ==
    /\ mediaChunks' = IF ResetsChunks THEN <<>> ELSE mediaChunks
    /\ mediaBlobUrl' = IF ResetsBlobUrl THEN NULL ELSE mediaBlobUrl
    /\ recorders' = Append(recorders, [stream |-> mediaStream.id, state |-> "recording",
                                       stopQueued |-> FALSE, sent |-> 0])
    /\ mediaRecorder' = Len(recorders) + 1
    /\ SetStatus("recording")
    /\ sinceStart' = <<>>
    /\ platformCall' = "start"

\* a content type that ignores what was requested
BlobTypeIgnoresVideo == "video/mp4"

\* the content type onRecordingStop gives the blob
BlobType ==
    IF blobPropertyBag # "absent" \/ Truthy(video) THEN "video/mp4" ELSE "audio/wav"

\* startRecording's test before the await: no stream is held
NeedsStream == mediaStream = NullStream

\* startRecording's test after the await: a stream is held
HasStreamStale == mediaStream # NullStream /\ ~resume

HasStream == mediaStream # NullStream

\* startRecording from `if (mediaStream.current)` on
StartTail ==
    IF HasStream
    THEN BeginRecording
    ELSE /\ platformCall' = "none"
         /\ UNCHANGED <<mediaChunks, mediaBlobUrl, recorders, mediaRecorder, status,
                        statusLog, sinceStart>>

\* the guard of stopRecording
StopGuard == mediaRecorder # NULL

\* the guards of pauseRecording and resumeRecording
PauseGuardAnyRecorder == mediaRecorder # NULL

PauseGuard == mediaRecorder # NULL /\ recorders[mediaRecorder].state = "recording"

ResumeGuard == mediaRecorder # NULL /\ recorders[mediaRecorder].state = "paused"

\* the guard of muteAudio's track loop
MuteGuard == mediaStream # NullStream

\* the preview stream the caller is handed
ExposedPreview ==
    IF variant = "render"
    THEN previewStream
    ELSE IF mediaStream # NullStream
         THEN [of |-> mediaStream.id, audio |-> <<>>, video |-> mediaStream.video]
         ELSE NullPreview

\* the error string the caller is handed
ExposedError == RecorderErrors(error)

\* the render-prop variant's mount effect throws on a host without MediaRecorder
SetupThrows == variant = "render" /\ isWebkit

\* the hook takes its fallback branches: `if (isWebkit)`
UsesFallback == variant = "hook" /\ isWebkit

\* startRecording's and stopRecording's test `if (fallBackAudio.current)`
FallbackReadyNever == FALSE

FallbackReady == fallBackAudio

\* WebkitAudio.startRecording(callback): the encoder starts and calls back
WebkitStartRecording == [webkitAudio EXCEPT !.recording = TRUE, !.startDue = TRUE]

\* WebkitAudio.stopRecording(callback): a recording encoder stops and calls back
\* with its blob
WebkitStopRecording ==
    IF webkitAudio.recording
    THEN [webkitAudio EXCEPT !.recording = FALSE, !.stopDue = TRUE]
    ELSE webkitAudio

\* the blob the alternate encoder hands to the stop callback: audio only
WebkitBlob == [type |-> "audio/wav", parts |-> <<>>]

\* ---- the operations ----

\* the mount effect: loadStream() when no stream is held
Mount ==
    /\ ~mounted /\ setupError = "none"
    /\ IF SetupThrows
       THEN /\ setupError' = "Unsupported Browser"
            /\ UNCHANGED <<mounted, fallBackAudio, status, statusLog, nAcq, acqs>>
       ELSE /\ mounted' = TRUE
            /\ fallBackAudio' = UsesFallback
            /\ IF mediaStream = NullStream
               THEN GetMediaStream("mount")
               ELSE UNCHANGED <<status, statusLog, nAcq, acqs>>
            /\ UNCHANGED setupError
    /\ platformCall' = "none"
    /\ UNCHANGED <<props, webkitAudio, error, isAudioMuted, mediaBlobUrl, mediaBlob, mediaStream,
                   previewStream, mediaRecorder, mediaChunks, nStreams, recorders,
                   resume, nStarts, nChunks, nUrls, onStopCalls, sinceStart>>

\* startRecording() up to its await, or to its end when a stream is held
StartRecording ==
    /\ mounted /\ ~resume
    /\ nStarts < MaxStarts
    /\ nStarts' = nStarts + 1
    /\ IF UsesFallback
       THEN /\ error' = IF FallbackReady THEN "NONE" ELSE "NotFoundError"
            /\ webkitAudio' = IF FallbackReady THEN WebkitStartRecording ELSE webkitAudio
            /\ platformCall' = "none"
            /\ UNCHANGED <<mediaChunks, mediaBlobUrl, recorders, mediaRecorder,
                           sinceStart, status, statusLog, nAcq, acqs>>
       ELSE /\ error' = "NONE"
            /\ UNCHANGED webkitAudio
            /\ IF NeedsStream
               THEN /\ GetMediaStream("start")
                    /\ platformCall' = "none"
                    /\ UNCHANGED <<mediaChunks, mediaBlobUrl, recorders, mediaRecorder,
                                   sinceStart>>
               ELSE /\ StartTail
                    /\ UNCHANGED <<nAcq, acqs>>
    /\ UNCHANGED <<fallBackAudio, setupError>>
    /\ UNCHANGED <<props, mounted, isAudioMuted, mediaBlob, mediaStream, previewStream,
                   nStreams, resume, nChunks, nUrls, onStopCalls>>

\* startRecording() after `await getMediaStream()`
StartResume ==
    /\ resume
    /\ resume' = FALSE
    /\ StartTail
    /\ UNCHANGED fallback
    /\ UNCHANGED <<props, mounted, error, isAudioMuted, mediaBlob, mediaStream,
                   previewStream, nStreams, acqs, nAcq, nStarts, nChunks, nUrls,
                   onStopCalls>>

\* stopRecording()
StopRecording ==
    /\ mounted /\ ~resume
    /\ IF UsesFallback
       THEN /\ webkitAudio' = IF FallbackReady THEN WebkitStopRecording ELSE webkitAudio
            /\ platformCall' = "none"
            /\ UNCHANGED <<status, statusLog, recorders>>
       ELSE /\ UNCHANGED webkitAudio
            /\ IF StopGuard
               THEN /\ SetStatus("stopping")
                    /\ platformCall' = "stop"
                    \* MediaRecorder.stop(): an inactive recorder ignores it
                    /\ recorders' =
                         IF recorders[mediaRecorder].state # "inactive"
                         THEN [recorders EXCEPT ![mediaRecorder].state = "inactive",
                                                ![mediaRecorder].stopQueued = TRUE]
                         ELSE recorders
               ELSE /\ platformCall' = "none"
                    /\ UNCHANGED <<status, statusLog, recorders>>
    /\ UNCHANGED <<fallBackAudio, setupError>>
    /\ UNCHANGED <<props, mounted, error, isAudioMuted, mediaBlobUrl, mediaBlob,
                   mediaStream, previewStream, mediaRecorder, mediaChunks, nStreams,
                   acqs, nAcq, resume, nStarts, nChunks, nUrls, onStopCalls, sinceStart>>

\* muteAudio(mute): the render props' muteAudio is muteAudio(true), unMuteAudio is muteAudio(false)
MuteAudio(mute) ==
    /\ mounted /\ ~resume
    /\ isAudioMuted' = mute
    /\ mediaStream' =
         IF MuteGuard
         THEN [mediaStream EXCEPT !.audio = [i \in DOMAIN mediaStream.audio |-> ~mute]]
         ELSE mediaStream
    /\ platformCall' = "none"
    /\ UNCHANGED fallback
    /\ UNCHANGED <<props, mounted, status, error, mediaBlobUrl, mediaBlob, nStreams,
                   previewStream, mediaRecorder, mediaChunks, recorders, acqs, nAcq,
                   resume, nStarts, nChunks, nUrls, onStopCalls, statusLog, sinceStart>>

\* pauseRecording() of the hook
PauseRecording ==
    /\ mounted /\ ~resume
    /\ variant = "hook"
    /\ IF PauseGuard
       THEN /\ recorders' = [recorders EXCEPT ![mediaRecorder].state = "paused"]
            /\ platformCall' = "pause"
       ELSE /\ platformCall' = "none"
            /\ UNCHANGED recorders
    /\ UNCHANGED fallback
    /\ UNCHANGED <<props, mounted, status, error, isAudioMuted, mediaBlobUrl, mediaBlob,
                   mediaStream, previewStream, mediaRecorder, mediaChunks, nStreams, acqs,
                   nAcq, resume, nStarts, nChunks, nUrls, onStopCalls, statusLog,
                   sinceStart>>

\* resumeRecording() of the hook
ResumeRecording ==
    /\ mounted /\ ~resume
    /\ variant = "hook"
    /\ IF ResumeGuard
       THEN /\ recorders' = [recorders EXCEPT ![mediaRecorder].state = "recording"]
            /\ platformCall' = "resume"
       ELSE /\ platformCall' = "none"
            /\ UNCHANGED recorders
    /\ UNCHANGED fallback
    /\ UNCHANGED <<props, mounted, status, error, isAudioMuted, mediaBlobUrl, mediaBlob,
                   mediaStream, previewStream, mediaRecorder, mediaChunks, nStreams, acqs,
                   nAcq, resume, nStarts, nChunks, nUrls, onStopCalls, statusLog,
                   sinceStart>>

\* the callback startRecording hands to the alternate encoder
WebkitStarted ==
    /\ ~resume
    /\ webkitAudio.startDue
    /\ webkitAudio' = [webkitAudio EXCEPT !.startDue = FALSE]
    /\ SetStatus("recording")
    /\ platformCall' = "none"
    /\ UNCHANGED <<fallBackAudio, setupError>>
    /\ UNCHANGED <<props, mounted, error, isAudioMuted, mediaBlobUrl, mediaBlob,
                   mediaStream, previewStream, mediaRecorder, mediaChunks, nStreams,
                   recorders, acqs, nAcq, resume, nStarts, nChunks, nUrls, onStopCalls,
                   sinceStart>>

\* the callback stopRecording hands to the alternate encoder
WebkitStopped ==
    /\ ~resume
    /\ webkitAudio.stopDue /\ ~webkitAudio.startDue
    /\ webkitAudio' = [webkitAudio EXCEPT !.stopDue = FALSE]
    /\ LET url == nUrls + 1
       IN /\ nUrls' = url
          /\ SetStatus("stopped")
          /\ mediaBlob' = WebkitBlob
          /\ mediaBlobUrl' = url
          /\ onStopCalls' = Append(onStopCalls, url)
    /\ platformCall' = "none"
    /\ UNCHANGED <<fallBackAudio, setupError>>
    /\ UNCHANGED <<props, mounted, error, isAudioMuted, mediaStream, previewStream,
                   mediaRecorder, mediaChunks, nStreams, recorders, acqs, nAcq, resume,
                   nStarts, nChunks, sinceStart>>

\* ---- the platform's completions and events ----

\* getDisplayMedia resolves and getMediaStream goes on to await the microphone
DisplayGranted(a) ==
    /\ ~resume
    /\ a.phase = "display" /\ Truthy(audio)
    /\ acqs' = (acqs \ {a}) \cup {[a EXCEPT !.phase = "mic"]}
    /\ platformCall' = "none"
    /\ UNCHANGED fallback
    /\ UNCHANGED <<props, mounted, status, error, isAudioMuted, mediaBlobUrl, mediaBlob,
                   mediaStream, previewStream, mediaRecorder, mediaChunks, nStreams,
                   recorders, nAcq, resume, nStarts, nChunks, nUrls, onStopCalls,
                   statusLog, sinceStart>>

\* the platform can grant the request acquisition a is waiting on
Grantable(a) ==
    CASE a.phase = "user" -> Truthy(audio) \/ Truthy(video)
      [] a.phase = "display" -> ~Truthy(audio)
      [] a.phase = "mic" -> TRUE

\* the stream getMediaStream ends up with: one track of each kind asked for
AcquiredStream(s) ==
    [id |-> s,
     audio |-> IF Truthy(audio) THEN <<TRUE>> ELSE <<>>,
     video |-> IF screen \/ Truthy(video) THEN 1 ELSE 0]

\* the preview stream getMediaStream derives from the stream with id s
PreviewFor(stream) ==
    IF variant = "render" /\ ~screen
    THEN [of |-> stream.id, audio |-> <<>>, video |-> stream.video]
    ELSE previewStream

\* getMediaStream after its last await resolved: the try block's tail
AcquireOk(a) ==
    /\ ~resume
    /\ Grantable(a)
    /\ LET stream == AcquiredStream(nStreams + 1)
       IN /\ nStreams' = nStreams + 1
          /\ mediaStream' = stream
          /\ previewStream' = PreviewFor(stream)
    /\ SetStatus("idle")
    /\ acqs' = acqs \ {a}
    /\ resume' = (a.origin = "start")
    /\ platformCall' = "none"
    /\ UNCHANGED fallback
    /\ UNCHANGED <<props, mounted, error, isAudioMuted, mediaBlobUrl, mediaBlob,
                   mediaRecorder, mediaChunks, recorders, nAcq, nStarts, nChunks, nUrls,
                   onStopCalls, sinceStart>>

\* the error names the platform may reject acquisition a with
RejectNames(a) ==
    IF a.phase = "user" /\ ~Truthy(audio) /\ ~Truthy(video)
    THEN {"TypeError"}
    ELSE PlatformErrorNames

\* getMediaStream's catch block
AcquireFail(a, name) ==
    /\ ~resume
    /\ name \in RejectNames(a)
    /\ error' = name
    /\ SetStatus("idle")
    /\ acqs' = acqs \ {a}
    /\ resume' = (a.origin = "start")
    /\ platformCall' = "none"
    /\ UNCHANGED fallback
    /\ UNCHANGED <<props, mounted, isAudioMuted, mediaBlobUrl, mediaBlob, mediaStream,
                   previewStream, mediaRecorder, mediaChunks, nStreams, recorders, nAcq,
                   nStarts, nChunks, nUrls, onStopCalls, sinceStart>>

\* recorder r may deliver data: it is recording, or its final data is due
Delivering(r) ==
    /\ recorders[r].state = "recording" \/ recorders[r].stopQueued
    /\ nChunks < MaxChunks

\* ondataavailable of recorder r: onRecordingActive
OnRecordingActive(r) ==
    /\ ~resume
    /\ Delivering(r)
    /\ LET data == [rec |-> r, seq |-> recorders[r].sent + 1]
       IN /\ mediaChunks' = Append(mediaChunks, data)
          /\ sinceStart' = Append(sinceStart, data)
    /\ recorders' = [recorders EXCEPT ![r].sent = @ + 1]
    /\ nChunks' = nChunks + 1
    /\ platformCall' = "none"
    /\ UNCHANGED fallback
    /\ UNCHANGED <<props, mounted, status, error, isAudioMuted, mediaBlobUrl, mediaBlob,
                   mediaStream, previewStream, mediaRecorder, nStreams, acqs, nAcq,
                   resume, nStarts, nUrls, onStopCalls, statusLog>>

\* onstop of recorder r: onRecordingStop
OnRecordingStop(r) ==
    /\ ~resume
    /\ recorders[r].stopQueued
    /\ recorders' = [recorders EXCEPT ![r].stopQueued = FALSE]
    /\ LET blob == [type |-> BlobType, parts |-> mediaChunks]
           url == nUrls + 1
       IN /\ nUrls' = url
          /\ SetStatus("stopped")
          /\ mediaBlobUrl' = url
          /\ mediaBlob' = blob
          /\ onStopCalls' = Append(onStopCalls, url)
    /\ platformCall' = "none"
    /\ UNCHANGED fallback
    /\ UNCHANGED <<props, mounted, error, isAudioMuted, mediaStream, previewStream,
                   mediaRecorder, mediaChunks, nStreams, acqs, nAcq, resume, nStarts,
                   nChunks, sinceStart>>

\* onerror of recorder r; the platform inactivates the recorder and queues its stop event
OnRecorderError(r) ==
    /\ ~resume
    /\ recorders[r].state # "inactive"
    /\ recorders' = [recorders EXCEPT ![r].state = "inactive", ![r].stopQueued = TRUE]
    /\ error' = "NO_RECORDER"
    /\ SetStatus("idle")
    /\ platformCall' = "none"
    /\ UNCHANGED fallback
    /\ UNCHANGED <<props, mounted, isAudioMuted, mediaBlobUrl, mediaBlob, mediaStream,
                   previewStream, mediaRecorder, mediaChunks, nStreams, acqs, nAcq,
                   resume, nStarts, nChunks, nUrls, onStopCalls, sinceStart>>

\* the caller serializes its start calls: none while an earlier one awaits its
\* stream, none while a recorder is active or its stop event is due
Serialized ==
    /\ \A a \in acqs : a.origin = "mount"
    /\ \A r \in DOMAIN recorders :
          recorders[r].state = "inactive" /\ ~recorders[r].stopQueued
    /\ webkitAudio = IdleEncoder

StartSerialized == Serialized /\ StartRecording

Next ==
    \/ Mount
    \/ StartSerialized
    \/ StartResume
    \/ StopRecording
    \/ \E mute \in BOOLEAN : MuteAudio(mute)
    \/ PauseRecording
    \/ ResumeRecording
    \/ WebkitStarted
    \/ WebkitStopped
    \/ \E a \in acqs : DisplayGranted(a)
    \/ \E a \in acqs : AcquireOk(a)
    \/ \E a \in acqs, name \in PlatformErrorNames : AcquireFail(a, name)
    \/ \E r \in DOMAIN recorders : OnRecordingActive(r)
    \/ \E r \in DOMAIN recorders : OnRecordingStop(r)
    \/ \E r \in DOMAIN recorders : OnRecorderError(r)

Spec == Init /\ [][Next]_vars

\* the same controller under a caller that does not serialize its calls
NextRace ==
    \/ Mount
    \/ StartRecording
    \/ StartResume
    \/ StopRecording
    \/ \E mute \in BOOLEAN : MuteAudio(mute)
    \/ PauseRecording
    \/ ResumeRecording
    \/ WebkitStarted
    \/ WebkitStopped
    \/ \E a \in acqs : DisplayGranted(a)
    \/ \E a \in acqs : AcquireOk(a)
    \/ \E a \in acqs, name \in PlatformErrorNames : AcquireFail(a, name)
    \/ \E r \in DOMAIN recorders : OnRecordingActive(r)
    \/ \E r \in DOMAIN recorders : OnRecordingStop(r)
    \/ \E r \in DOMAIN recorders : OnRecorderError(r)

SpecRace == Init /\ [][NextRace]_vars

\* ---- the claims ----

\* the status values a serialized record cycle is to show
CycleStatuses ==
    <<"idle", "acquiring_media", "idle", "recording", "stopping", "stopped">>

\* the serialized record cycle: audio alone requested, the one acquisition (the mount
\* effect's) succeeded, one start, two chunks, stop, and the stop event delivered
SerializedCycleDone ==
    /\ Truthy(audio) /\ ~Truthy(video) /\ ~screen /\ blobPropertyBag = "absent"
    /\ nAcq = 1 /\ nStreams = 1 /\ nStarts = 1 /\ nChunks = 2
    /\ error = "NONE"
    /\ status = "stopped"

\* C1: after a serialized record cycle the observed statuses are idle,
\* acquiring_media, idle, recording, stopping, stopped; onStop was invoked exactly
\* once, with a non-empty reference URL; and the blob is audio-typed.
C1_SerializedCycle ==
    SerializedCycleDone =>
        /\ statusLog = CycleStatuses
        /\ Len(onStopCalls) = 1
        /\ onStopCalls[1] # NULL
        /\ onStopCalls[1] = mediaBlobUrl
        /\ mediaBlob.type = "audio/wav"
        /\ Len(mediaBlob.parts) = 2

C1_Witness == SerializedCycleDone /\ statusLog = CycleStatuses /\ Len(onStopCalls) = 1

\* C2: in both variants the blob built at a stop event is the concatenation, in
\* delivery order, of exactly the chunks delivered since the most recent start.
C2_BlobIsChunksSinceStart ==
    [][nUrls' # nUrls => mediaBlob'.parts = sinceStart]_vars

\* C3: while a new recording is in progress neither the blob nor the reference URL
\* of the previous cycle is exposed to the caller.
C3_StartResetsArtifact ==
    status = "recording" => mediaBlob = NullBlob /\ mediaBlobUrl = NULL

\* C4: the output blob's content type is video when video was requested or a
\* video-typed blob bag was supplied, and audio otherwise.
C4_BlobContentType ==
    mediaBlob # NullBlob =>
        mediaBlob.type = IF Truthy(video) \/ blobPropertyBag = "video"
                         THEN "video/mp4"
                         ELSE "audio/wav"

\* no recorder is active: none was created, or the last one has stopped or failed
NoActiveRecorder ==
    mediaRecorder = NULL \/ recorders[mediaRecorder].state = "inactive"

\* C5: stop() with no active recorder is a no-op: status and error are unchanged
\* and no stop request is sent to the platform.
C5_StopWithoutRecorderIsNoOp ==
    [][StopRecording /\ NoActiveRecorder =>
         /\ status' = status
         /\ error' = error
         /\ platformCall' # "stop"]_vars

\* C6: muteAudio(true) disables and unMuteAudio enables every audio track of the held
\* stream, which stays the same stream; without a stream either call changes no
\* controller state, the isAudioMuted flag included.
C6_MuteTogglesTracksOnly ==
    [][\A mute \in BOOLEAN :
         MuteAudio(mute) =>
           IF mediaStream # NullStream
           THEN /\ \A i \in DOMAIN mediaStream'.audio : mediaStream'.audio[i] = ~mute
                /\ mediaStream'.id = mediaStream.id
                /\ mediaStream'.video = mediaStream.video
                /\ DOMAIN mediaStream'.audio = DOMAIN mediaStream.audio
           ELSE UNCHANGED <<status, error, isAudioMuted, mediaBlobUrl, mediaBlob,
                            mediaStream, previewStream, mediaRecorder,
                            mediaChunks>>]_vars

C8_OneAcquisitionBeforeRecording ==
    [][/\ nStarts' # nStarts /\ mediaStream = NullStream /\ ~isWebkit =>
            /\ nAcq' = nAcq + 1
            /\ Cardinality(acqs') = 1
            /\ recorders' = recorders
       /\ Len(recorders') # Len(recorders) =>
            mediaStream # NullStream /\ acqs = {}]_vars

\* C9: a recorder error event returns status to idle and sets the error to
\* recorder_error, and the error stays recorder_error until the next start().
C9_RecorderErrorSticks ==
    [][/\ \A r \in DOMAIN recorders :
            OnRecorderError(r) =>
              status' = "idle" /\ ExposedError' = "recorder_error"
       /\ ExposedError = "recorder_error" /\ ExposedError' # "recorder_error" =>
            nStarts' = nStarts + 1]_vars

\* C10: in the hook, pause() reaches the platform only when a recorder exists and
\* is recording, resume() only when a recorder exists and is paused; otherwise each
\* changes nothing, and neither ever touches status, error, chunks or the artifact.
C10_PauseResumeGuarded ==
    [][/\ PauseRecording =>
            IF mediaRecorder # NULL /\ recorders[mediaRecorder].state = "recording"
            THEN /\ platformCall' = "pause"
                 /\ recorders' = [recorders EXCEPT ![mediaRecorder].state = "paused"]
            ELSE platformCall' = "none" /\ recorders' = recorders
       /\ ResumeRecording =>
            IF mediaRecorder # NULL /\ recorders[mediaRecorder].state = "paused"
            THEN /\ platformCall' = "resume"
                 /\ recorders' = [recorders EXCEPT ![mediaRecorder].state = "recording"]
            ELSE platformCall' = "none" /\ recorders' = recorders
       /\ PauseRecording \/ ResumeRecording =>
            UNCHANGED <<status, error, mediaChunks, mediaBlob, mediaBlobUrl,
                        mediaRecorder, mediaStream>>]_vars

\* a pause request was forwarded and the recorder is paused
C10_Witness ==
    /\ variant = "hook" /\ platformCall = "pause"
    /\ mediaRecorder # NULL /\ recorders[mediaRecorder].state = "paused"

\* the event loop delivers a queued stop event and runs a due continuation
Fairness ==
    /\ WF_vars(\E r \in DOMAIN recorders : OnRecordingStop(r))
    /\ WF_vars(StartResume)

SpecFair == Spec /\ Fairness

\* C11: once stop() has set status to stopping, the stop notification arrives and
\* status becomes stopped: status never remains stopping forever, also for a stop()
\* issued after the recorder has already stopped.
C11_NeverStoppingForever == []<>(status # "stopping")

\* the string codes of the error taxonomy, and the empty string of no error
ErrorCodes ==
    {"media_aborted", "permission_denied", "no_specified_media_found", "media_in_use",
     "invalid_media_constraints", "no_constraints", "recorder_error", ""}

\* C12: the error exposed to the caller is always one of the enumerated string
\* codes or the empty string, whatever error name the platform reported.
C12_ErrorIsEnumerated == ExposedError \in ErrorCodes

C14_PreviewShowsVideoTracks ==
    mediaStream # NullStream =>
        /\ ExposedPreview # NullPreview
        /\ ExposedPreview.of = mediaStream.id
        /\ ExposedPreview.video = mediaStream.video
        /\ ExposedPreview.audio = <<>>

\* the recorders the controller created that are recording or paused
ActiveRecorders == {r \in DOMAIN recorders : recorders[r].state # "inactive"}

\* C15: under any interleaving of start(), stop() and platform events at most one
\* recorder created by the controller is recording or paused, and the held stream
\* reference, once set, is not replaced by a second acquired stream.
C15_OneStreamOneRecorder ==
    [][/\ Cardinality(ActiveRecorders') <= 1
       /\ mediaStream # NullStream => mediaStream'.id = mediaStream.id]_vars

\* the status changes of the state machine; a restart leaves stopped for recording,
\* directly or by way of idle or acquiring_media
StatusTransitions ==
    {<<"idle", "acquiring_media">>, <<"acquiring_media", "idle">>,
     <<"idle", "recording">>, <<"recording", "stopping">>, <<"stopping", "stopped">>,
     <<"stopped", "recording">>, <<"stopped", "idle">>, <<"stopped", "acquiring_media">>}

\* C16: every status change the controller makes, under any sequence of start(),
\* stop() and platform events, is one of the transitions idle to acquiring_media,
\* acquiring_media to idle, idle to recording, recording to stopping, stopping to
\* stopped, or a restart from stopped.  Stated of the native path.
C16_StatusTransitions ==
    [][~isWebkit /\ status' # status => <<status, status'>> \in StatusTransitions]_vars

\* getMediaStream call a settles, with a stream or with an error
Settles(a) ==
    AcquireOk(a) \/ \E name \in PlatformErrorNames \cup {"TypeError"} : AcquireFail(a, name)

\* C17: status is acquiring_media in every state in which an acquisition is in
\* flight, also when the mount-time and a start()-triggered acquisition overlap
\* (stated of the native path), and the completion of an acquisition only ever
\* changes status from acquiring_media to idle.
C17_AcquiringWhileInFlight ==
    [][/\ ~isWebkit /\ acqs' # {} => status' = "acquiring_media"
       /\ \A a \in acqs :
            Settles(a) => status = "acquiring_media" /\ status' = "idle"]_vars

\* the most recently created recorder is recording or paused
LatestRecorderActive ==
    recorders # <<>> /\ recorders[Len(recorders)].state \in {"recording", "paused"}

\* C18: on the native path status is recording if and only if the most recently
\* created recorder is recording or paused; no event of an earlier acquisition or
\* an earlier recorder changes status while the current recorder is recording.
C18_StatusReflectsRecorder ==
    ~isWebkit => (status = "recording" <=> LatestRecorderActive)

\* C19: while a capture stream with audio tracks is held, isAudioMuted is true if
\* and only if every audio track of the stream is disabled, for any order of
\* muteAudio/unMuteAudio calls and acquisition completions.
C19_MutedFlagAgreesWithStream ==
    mediaStream # NullStream /\ mediaStream.audio # <<>> =>
        (isAudioMuted <=> \A i \in DOMAIN mediaStream.audio : ~mediaStream.audio[i])

\* C20: every chunk in the chunk buffer was emitted by the most recently created
\* recorder, under any interleaving of start(), stop() and data-available events,
\* so the blob built at a stop event holds only the stopped recorder's own data.
C20_ChunksOfLatestRecorder ==
    [][/\ \A i \in DOMAIN mediaChunks' : mediaChunks'[i].rec = Len(recorders')
       /\ \A r \in DOMAIN recorders :
            OnRecordingStop(r) =>
              \A i \in DOMAIN mediaBlob'.parts : mediaBlob'.parts[i].rec = r]_vars

====
